---- MODULE Spec2Model ----
(***************************************************************************)
(* STL comparison viewer: the mesh store and normalizer of viewer.js, the  *)
(* orientation composer (rotateStudent / resetStudentOrientation), the     *)
(* metrics engine of compare.js and the page handlers that drive them.     *)
(*                                                                         *)
(* Numbers.  The program computes in IEEE doubles and keeps vertex         *)
(* positions in 32-bit floats.  So does the model: a number is a sign, a   *)
(* mantissa of 53 bits and an exponent, and every sum, product and         *)
(* quotient is rounded to nearest, ties to even, as the hardware rounds    *)
(* it; a stored coordinate is rounded to 24 bits.  Math.cos(Math.PI / 2)   *)
(* is 6.123233995736766e-17, not 0, and every quarter turn matrix carries  *)
(* it.                                                                     *)
(*                                                                         *)
(* Rendering (camera framing, controls, materials, vertex normals) is not  *)
(* part of the state: fitCameraToModels and computeVertexNormals write     *)
(* only to the camera, the controls and the normal attribute.              *)
(***************************************************************************)
EXTENDS Integers, Sequences, FiniteSets, TLC

(***************************************************************************)
(* JS number arithmetic: IEEE 754 doubles, rounded to nearest, ties to     *)
(* even.  A number is [kind, sign, exp, man]: kind "fin" is the value      *)
(* sign * man * 2^exp, man a natural number of at most 53 bits held as     *)
(* four digits of 14 bits, lowest first; man has 53 bits, or fewer with    *)
(* exp = -1074 (a denormal); zero is man = 0, exp = 0, of either sign.     *)
(* kind "inf" is the infinity of the sign, kind "nan" is NaN.              *)
(***************************************************************************)
Abs(i) == IF i < 0 THEN -i ELSE i
Min(i, j) == IF i < j THEN i ELSE j
Max(i, j) == IF i > j THEN i ELSE j

\* the member of a set of one value: a value computed once, then used
Only(set) == CHOOSE value \in set : TRUE

\* the base of a digit, 2^14, and the digits of a number in the making
Base == 16384
Width == 8

Digit(x, i) == IF i >= 1 /\ i <= Len(x) THEN x[i] ELSE 0

\* a natural number on Width digits; the lowest four of its digits
Wide(x) == [i \in 1..Width |-> Digit(x, i)]
Narrow(x) == <<x[1], x[2], x[3], x[4]>>

\* the digits of a natural number i < 2^31
FromInt(i) == [k \in 1..Width |-> IF k > 3 THEN 0 ELSE (i \div (Base ^ (k - 1))) % Base]

\* the number of bits of a digit, of a natural number
DigitLen(v) == IF v = 0 THEN 0 ELSE CHOOSE b \in 1..14 : 2 ^ (b - 1) <= v /\ v < 2 ^ b

RECURSIVE TopDigit(_, _)
TopDigit(x, i) == IF i = 0 THEN 0 ELSE IF x[i] # 0 THEN i ELSE TopDigit(x, i - 1)

BitLen(x) ==
  LET top == TopDigit(x, Width)
  IN  IF top = 0 THEN 0 ELSE 14 * (top - 1) + DigitLen(x[top])

\* x shifted right and left by n bits
ShiftRight(x, n) ==
  LET q == n \div 14
      lo == 2 ^ (n % 14)
      hi == 2 ^ (14 - (n % 14))
  IN  [i \in 1..Width |-> (Digit(x, i + q) \div lo) + (Digit(x, i + q + 1) % lo) * hi]

ShiftLeft(x, n) ==
  LET q == n \div 14
      lo == 2 ^ (14 - (n % 14))
      hi == 2 ^ (n % 14)
  IN  [i \in 1..Width |-> (Digit(x, i - q) % lo) * hi + (Digit(x, i - q - 1) \div lo)]

\* some bit of x below bit n is set; bit n of x (bit 0 the lowest)
Sticky(x, n) ==
  \/ \E i \in 1..Width : i <= n \div 14 /\ x[i] # 0
  \/ Digit(x, n \div 14 + 1) % (2 ^ (n % 14)) # 0

Bit(x, n) == (Digit(x, n \div 14 + 1) \div (2 ^ (n % 14))) % 2

\* columns of digit sums or differences brought back to digits, the carry
\* (or borrow, a negative carry) passed upwards
RECURSIVE Carried(_, _, _)
Carried(cols, i, carry) ==
  IF i > Width THEN <<>>
  ELSE LET t == cols[i] + carry
       IN  <<t % Base>> \o Carried(cols, i + 1, t \div Base)

Plus(x, y) == Carried([i \in 1..Width |-> x[i] + y[i]], 1, 0)

\* x - y for x >= y
Minus(x, y) == Carried([i \in 1..Width |-> x[i] - y[i]], 1, 0)

\* the product of two numbers of four digits
Times(x, y) ==
  LET col(k) == LET term(i) == IF k + 1 - i >= 1 /\ k + 1 - i <= 4
                                THEN x[i] * y[k + 1 - i] ELSE 0
                IN  term(1) + term(2) + term(3) + term(4)
  IN  Carried([k \in 1..Width |-> col(k)], 1, 0)

\* -1, 0, 1 as x <, =, > y, comparing the digits from digit i down
RECURSIVE Compared(_, _, _)
Compared(x, y, i) ==
  IF i = 0 THEN 0
  ELSE IF x[i] > y[i] THEN 1
  ELSE IF x[i] < y[i] THEN -1
  ELSE Compared(x, y, i - 1)

NoDigits == <<0, 0, 0, 0>>

PosInf == [kind |-> "inf", sign |-> 1, exp |-> 0, man |-> NoDigits]
NegInf == [kind |-> "inf", sign |-> -1, exp |-> 0, man |-> NoDigits]
NaN == [kind |-> "nan", sign |-> 1, exp |-> 0, man |-> NoDigits]

\* the zero of a sign; the infinity of a sign
Zero(s) == [kind |-> "fin", sign |-> s, exp |-> 0, man |-> NoDigits]
Inf(s) == IF s > 0 THEN PosInf ELSE NegInf

IsZero(x) == x.kind = "fin" /\ x.man = NoDigits

\* big without its lowest drop bits, rounded to nearest, ties to even
Nearest(big, drop) ==
  Only({IF Bit(big, drop - 1) = 1 /\ (Sticky(big, drop - 1) \/ kept[1] % 2 = 1)
        THEN Plus(kept, FromInt(1)) ELSE kept
        : kept \in {ShiftRight(big, drop)}})

\* sign * near * 2^e for near of len bits, at most p + 1, the rounding having
\* carried into the next place when it has p + 1
Placed(sign, near, len, e, p, top) ==
  IF len = 0 THEN Zero(sign)
  ELSE IF e + len > top THEN Inf(sign)
  ELSE [kind |-> "fin", sign |-> sign, exp |-> IF len > p THEN e + 1 ELSE e,
        man |-> Narrow(IF len > p THEN ShiftRight(near, 1) ELSE near)]

\* sign * big * 2^e for big of at most 53 bits, e far from the ends of the
\* range: a double as it is
Normal(sign, big, e) ==
  Only({[kind |-> "fin", sign |-> sign, exp |-> e - up, man |-> Narrow(ShiftLeft(big, up))]
        : up \in {53 - BitLen(big)}})

\* sign * big * 2^e for big of len bits, rounded to nearest, ties to even, to
\* a format of p bits whose lowest bit is worth at least 2^low and whose
\* values lie below 2^top: p = 53, low = -1074, top = 1024 for a double
Fitted(sign, big, len, e, p, low, top) ==
  LET drop == Max(len - p, low - e)
      up == Min(p - len, e - low)
  IN  IF len = 0 THEN Zero(sign)
      ELSE IF drop > 0
      THEN Only({Placed(sign, near, BitLen(near), e + drop, p, top)
                 : near \in {Nearest(big, drop)}})
      ELSE IF e + len > top THEN Inf(sign)
      ELSE [kind |-> "fin", sign |-> sign, exp |-> e - up,
            man |-> Narrow(ShiftLeft(big, up))]

Rounded(sign, big, e, p, low, top) ==
  Only({Fitted(sign, x, BitLen(x), e, p, low, top) : x \in {big}})

Double(sign, big, e) == Rounded(sign, big, e, 53, -1074, 1024)

\* an integer as a number
R(i) == IF i = 0 THEN Zero(1) ELSE Normal(IF i < 0 THEN -1 ELSE 1, FromInt(Abs(i)), 0)

One == [kind |-> "fin", sign |-> 1, exp |-> -52, man |-> <<0, 0, 0, 1024>>]

\* -x
RNeg(a) == Only({IF x.kind = "nan" THEN x ELSE [x EXCEPT !.sign = -@] : x \in {a}})

\* the magnitudes of two finite numbers compared: -1, 0, 1
Magnitudes(x, y) ==
  IF IsZero(x) \/ IsZero(y)
  THEN (IF IsZero(x) /\ IsZero(y) THEN 0 ELSE IF IsZero(x) THEN -1 ELSE 1)
  ELSE IF x.exp # y.exp THEN (IF x.exp > y.exp THEN 1 ELSE -1)
  ELSE Compared(x.man, y.man, 4)

\* big + small or |big - small| with the sign of the larger, times 2^e, for
\* order = -1, 0, 1 as big <, =, > small: exact, then rounded
Combined(x, y, big, small, order, e) ==
  IF x.sign # y.sign /\ order = 0 THEN Zero(1)
  ELSE Double(IF order > 0 THEN x.sign ELSE y.sign,
              IF x.sign = y.sign THEN Plus(big, small)
              ELSE IF order > 0 THEN Minus(big, small) ELSE Minus(small, big), e)

\* x + y for finite nonzero x, y with x.exp >= y.exp.  56 or more places
\* apart, y is below a quarter of the last place of x.
Summed(x, y) ==
  IF x.exp - y.exp > 56 THEN x
  ELSE Only({Combined(x, y, big, small, Compared(big, small, Width), y.exp)
             : big \in {ShiftLeft(Wide(x.man), x.exp - y.exp)}, small \in {Wide(y.man)}})

\* x + y
Sum(x, y) ==
  IF x.kind = "nan" \/ y.kind = "nan" THEN NaN
  ELSE IF x.kind = "inf" THEN (IF y.kind = "inf" /\ y # x THEN NaN ELSE x)
  ELSE IF y.kind = "inf" THEN y
  ELSE IF IsZero(x) THEN (IF IsZero(y) /\ x.sign # y.sign THEN Zero(1) ELSE y)
  ELSE IF IsZero(y) THEN x
  ELSE Only({Summed(high, low) : high \in {IF x.exp >= y.exp THEN x ELSE y},
                                 low \in {IF x.exp >= y.exp THEN y ELSE x}})

\* a + b, a - b: each operand is evaluated once
RAdd(a, b) == Only({Sum(x, y) : x \in {a}, y \in {b}})

RSub(a, b) == RAdd(a, RNeg(b))

\* x * y
Multiplied(x, y) ==
  IF x.kind = "nan" \/ y.kind = "nan" THEN NaN
  ELSE IF x.kind = "inf" \/ y.kind = "inf"
  THEN (IF IsZero(x) \/ IsZero(y) THEN NaN ELSE Inf(x.sign * y.sign))
  ELSE IF IsZero(x) \/ IsZero(y) THEN Zero(x.sign * y.sign)
  ELSE IF x = One THEN y
  ELSE IF y = One THEN x
  ELSE Double(x.sign * y.sign, Times(x.man, y.man), x.exp + y.exp)

RMul(a, b) == Only({Multiplied(x, y) : x \in {a}, y \in {b}})

\* x times a digit; x times Base plus a digit
Scaled(x, q) == Carried([i \in 1..Width |-> x[i] * q], 1, 0)
Appended(x, q) == [i \in 1..Width |-> IF i = 1 THEN q ELSE x[i - 1]]

\* the largest q <= guess with q * den <= rest
RECURSIVE Fitting(_, _, _)
Fitting(rest, den, guess) ==
  IF \E scaled \in {Scaled(den, guess)} : Compared(scaled, rest, Width) > 0
  THEN Fitting(rest, den, guess - 1)
  ELSE guess

\* the digit rest \div den, for rest < Base * den and den of four digits, the
\* top one at least Base / 2: the guess from the top digits is at most 2 above
QuotientDigit(rest, den) ==
  Only({Fitting(rest, den, guess)
        : guess \in {Min(Base - 1, (rest[5] * Base + rest[4]) \div den[4])}})

\* one step of the long division of rest by den: the digit, and what is left
Step(rest, den) ==
  Only({<<q, Minus(rest, Scaled(den, q))>> : q \in {QuotientDigit(rest, den)}})

QuotientStep(rest, den) == Only({Step(x, y) : x \in {rest}, y \in {den}})

\* n more digits of the quotient by den, rest being what is left to divide
\* and sofar the digits found; then twice the quotient, plus one when the
\* division leaves a remainder
RECURSIVE Quotient(_, _, _, _)
Quotient(rest, den, n, sofar) ==
  IF n = 0
  THEN Carried([i \in 1..Width |-> sofar[i] + sofar[i]], 1, IF BitLen(rest) = 0 THEN 0 ELSE 1)
  ELSE Only({Quotient(Carried(Appended(step[2], 0), 1, 0), den, n - 1,
                      Carried(Appended(sofar, step[1]), 1, 0))
             : step \in {QuotientStep(rest, den)}})

\* a mantissa made 56 bits long
Aligned(man) == Carried(ShiftLeft(Wide(man), 56 - BitLen(Wide(man))), 1, 0)

\* x / y for finite nonzero x, y: both made 56 bits long, the quotient taken
\* to 56 places
Divided(x, y) ==
  Double(x.sign * y.sign, Quotient(Aligned(x.man), Aligned(y.man), 5, FromInt(0)),
         (x.exp + BitLen(Wide(x.man))) - (y.exp + BitLen(Wide(y.man))) - 57)

\* x / y
Ratio(x, y) ==
  IF x.kind = "nan" \/ y.kind = "nan" THEN NaN
  ELSE IF x.kind = "inf" THEN (IF y.kind = "inf" THEN NaN ELSE Inf(x.sign * y.sign))
  ELSE IF y.kind = "inf" THEN Zero(x.sign * y.sign)
  ELSE IF IsZero(y) THEN (IF IsZero(x) THEN NaN ELSE Inf(x.sign * y.sign))
  ELSE IF IsZero(x) THEN Zero(x.sign * y.sign)
  ELSE IF y = One THEN x
  ELSE Divided(x, y)

RDiv(a, b) == Only({Ratio(x, y) : x \in {a}, y \in {b}})

\* the number num / den, as JS divides two integers
Norm(num, den) == RDiv(R(num), R(den))

\* Math.abs
RAbs(a) == Only({IF x.kind = "nan" THEN x ELSE [x EXCEPT !.sign = 1] : x \in {a}})

\* a === b as JS compares numbers: -0 equals 0, NaN equals nothing
Same(a, b) ==
  \E x \in {a}, y \in {b} :
    /\ x.kind # "nan" /\ y.kind # "nan"
    /\ x = y \/ (IsZero(x) /\ IsZero(y))

\* a < b
RLt(a, b) ==
  \E x \in {a}, y \in {b} :
    IF x.kind = "nan" \/ y.kind = "nan" THEN FALSE
    ELSE IF Same(x, y) THEN FALSE
    ELSE IF x.kind = "inf" THEN x.sign < 0
    ELSE IF y.kind = "inf" THEN y.sign > 0
    ELSE IF IsZero(x) THEN y.sign > 0
    ELSE IF IsZero(y) THEN x.sign < 0
    ELSE IF x.sign # y.sign THEN x.sign < y.sign
    ELSE Magnitudes(x, y) * x.sign < 0

\* Math.min, Math.max: NaN when either argument is NaN, and -0 below 0
Lower(x, y) ==
  IF x.kind = "nan" \/ y.kind = "nan" THEN NaN
  ELSE IF IsZero(x) /\ IsZero(y) THEN Zero(Min(x.sign, y.sign))
  ELSE IF RLt(y, x) THEN y ELSE x

Higher(x, y) ==
  IF x.kind = "nan" \/ y.kind = "nan" THEN NaN
  ELSE IF IsZero(x) /\ IsZero(y) THEN Zero(Max(x.sign, y.sign))
  ELSE IF RLt(x, y) THEN y ELSE x

RMin(a, b) == Only({Lower(x, y) : x \in {a}, y \in {b}})

RMax(a, b) == Only({Higher(x, y) : x \in {a}, y \in {b}})

\* a number as a position attribute holds it, in a Float32Array: rounded to
\* 24 bits, the lowest worth at least 2^-149, values below 2^128
Single(x) ==
  IF x.kind # "fin" \/ IsZero(x) THEN x
  ELSE Only({IF single.kind # "fin" \/ IsZero(single) THEN single
             ELSE Normal(single.sign, Wide(single.man), single.exp)
             : single \in {Rounded(x.sign, Wide(x.man), x.exp, 24, -149, 128)}})

Float32(a) == Only({Single(x) : x \in {a}})

\* Math.cos(Math.PI / 2) = 6.123233995736766e-17 = 4967757600021511 * 2^-106
Eps == [kind |-> "fin", sign |-> 1, exp |-> -106, man |-> <<7175, 3153, 8803, 1129>>]

\* an integer point as a vertex
V3(x, y, z) == <<R(x), R(y), R(z)>>

(***************************************************************************)
(* three.js value operations used by the program, on a position attribute  *)
(* modelled as a sequence of vertices <<x, y, z>>.                         *)
(***************************************************************************)
\* Box3.expandByPoint over the vertices from vertex i on, coordinate k:
\* min = Math.min(min, p), max = Math.max(max, p)
RECURSIVE FoldMin(_, _, _, _)
FoldMin(pos, k, i, min) ==
  IF i > Len(pos) THEN min ELSE FoldMin(pos, k, i + 1, RMin(min, pos[i][k]))

RECURSIVE FoldMax(_, _, _, _)
FoldMax(pos, k, i, max) ==
  IF i > Len(pos) THEN max ELSE FoldMax(pos, k, i + 1, RMax(max, pos[i][k]))

\* new THREE.Box3().setFromBufferAttribute(position): an empty attribute
\* leaves the box at min = +Infinity, max = -Infinity
setFromBufferAttribute(position) ==
  Only({[min |-> <<FoldMin(pos, 1, 1, PosInf), FoldMin(pos, 2, 1, PosInf),
                    FoldMin(pos, 3, 1, PosInf)>>,
         max |-> <<FoldMax(pos, 1, 1, NegInf), FoldMax(pos, 2, 1, NegInf),
                    FoldMax(pos, 3, 1, NegInf)>>]
        : pos \in {position}})

\* 0.5
Half == Norm(1, 2)

\* Box3.isEmpty
isEmpty(box) == \E k \in 1..3 : RLt(box.max[k], box.min[k])

\* Box3.getSize: (0, 0, 0) for an empty box, else max - min
getSize(of) ==
  Only({IF isEmpty(box) THEN V3(0, 0, 0)
        ELSE <<RSub(box.max[1], box.min[1]), RSub(box.max[2], box.min[2]),
               RSub(box.max[3], box.min[3])>>
        : box \in {of}})

\* Box3.getCenter: (0, 0, 0) for an empty box, else (min + max) * 0.5
getCenter(of) ==
  Only({IF isEmpty(box) THEN V3(0, 0, 0)
        ELSE <<RMul(RAdd(box.min[1], box.max[1]), Half),
               RMul(RAdd(box.min[2], box.max[2]), Half),
               RMul(RAdd(box.min[3], box.max[3]), Half)>>
        : box \in {of}})

\* Vector3.dot, Vector3.cross
dot(a, b) == RAdd(RAdd(RMul(a[1], b[1]), RMul(a[2], b[2])), RMul(a[3], b[3]))
cross(a, b) ==
  <<RSub(RMul(a[2], b[3]), RMul(a[3], b[2])),
    RSub(RMul(a[3], b[1]), RMul(a[1], b[3])),
    RSub(RMul(a[1], b[2]), RMul(a[2], b[1]))>>

(***************************************************************************)
(* compare.js                                                              *)
(***************************************************************************)
computeBoundingBox(pos) ==
  Only({[box |-> box, size |-> getSize(box), min |-> box.min, max |-> box.max]
        : box \in {setFromBufferAttribute(pos)}})

\* position.count / 3, a JS number division
computeTriangleCount(pos) == Norm(Len(pos), 3)

\* Vector3.fromBufferAttribute(position, i), i 1-based: beyond the end of
\* the array the coordinates read are undefined, NaN in any arithmetic
fromBufferAttribute(pos, i) ==
  IF i <= Len(pos) THEN pos[i] ELSE <<NaN, NaN, NaN>>

\* The loop of computeApproxVolume from vertex i on (1-based), volume being
\* the sum so far.  When the count is not a multiple of 3 the last round
\* reads beyond the end.
RECURSIVE VolumeFrom(_, _, _)
VolumeFrom(pos, i, volume) ==
  IF i > Len(pos) THEN volume
  ELSE LET p1 == fromBufferAttribute(pos, i)
           p2 == fromBufferAttribute(pos, i + 1)
           p3 == fromBufferAttribute(pos, i + 2)
       IN  Only({VolumeFrom(pos, i + 3, RAdd(volume, RDiv(dot(p1, p2xp3), R(6))))
                 : p2xp3 \in {cross(p2, p3)}})

\* (a variant that forgets Math.abs: the volume properties fail on it)
signedVolume(position) ==
  Only({IF Len(pos) < 3 THEN R(0) ELSE VolumeFrom(pos, 1, R(0)) : pos \in {position}})

computeApproxVolume(position) ==
  Only({IF Len(pos) < 3 THEN R(0) ELSE RAbs(VolumeFrom(pos, 1, R(0)))
        : pos \in {position}})

\* (a variant that returns the fraction, not the percentage)
fractionDifference(baseline, student) ==
  IF Same(baseline, R(0))
  THEN (IF Same(student, R(0)) THEN R(0) ELSE PosInf)
  ELSE RDiv(RSub(student, baseline), baseline)

percentDifference(baseline, student) ==
  IF Same(baseline, R(0))
  THEN (IF Same(student, R(0)) THEN R(0) ELSE PosInf)
  ELSE RMul(RDiv(RSub(student, baseline), baseline), R(100))

\* one row of the report
Measure(baseline, student) ==
  Only({[baseline |-> b, student |-> c, percentDifference |-> percentDifference(b, c)]
        : b \in {baseline}, c \in {student}})

compareModels(baselinePos, studentPos) ==
  LET baselineTriangles == computeTriangleCount(baselinePos)
      studentTriangles == computeTriangleCount(studentPos)
      baselineVolume == computeApproxVolume(baselinePos)
      studentVolume == computeApproxVolume(studentPos)
  IN  Only({[boundingBoxes |-> [baseline |-> baselineBox, student |-> studentBox],
             triangleCounts |-> Measure(baselineTriangles, studentTriangles),
             volumes |-> Measure(baselineVolume, studentVolume),
             dimensions |-> [x |-> Measure(baselineBox.size[1], studentBox.size[1]),
                             y |-> Measure(baselineBox.size[2], studentBox.size[2]),
                             z |-> Measure(baselineBox.size[3], studentBox.size[3])]]
            : baselineBox \in {computeBoundingBox(baselinePos)},
              studentBox \in {computeBoundingBox(studentPos)}})

(***************************************************************************)
(* THREE.Matrix4 as four rows of four numbers.                             *)
(***************************************************************************)
Identity ==
  <<<<R(1), R(0), R(0), R(0)>>, <<R(0), R(1), R(0), R(0)>>,
    <<R(0), R(0), R(1), R(0)>>, <<R(0), R(0), R(0), R(1)>>>>

\* Math.cos and Math.sin of direction * Math.PI / 2, direction being +1 or -1:
\* the cosine is 6.123233995736766e-17 both ways, the sine exactly +-1
Cos(q) == Eps
Sin(q) == R(q)

\* Matrix4.makeRotationX(theta), Matrix4.makeRotationY(theta)
makeRotationX(q) ==
  LET c == Cos(q)
      s == Sin(q)
  IN  <<<<R(1), R(0), R(0), R(0)>>, <<R(0), c, RNeg(s), R(0)>>,
        <<R(0), s, c, R(0)>>, <<R(0), R(0), R(0), R(1)>>>>

\* (a variant with the sign of one sine wrong: a reflection, not a rotation)
mirrorY(q) ==
  LET c == Cos(q)
      s == Sin(q)
  IN  <<<<c, R(0), s, R(0)>>, <<R(0), R(1), R(0), R(0)>>,
        <<s, R(0), c, R(0)>>, <<R(0), R(0), R(0), R(1)>>>>

makeRotationY(q) ==
  LET c == Cos(q)
      s == Sin(q)
  IN  <<<<c, R(0), s, R(0)>>, <<R(0), R(1), R(0), R(0)>>,
        <<RNeg(s), R(0), c, R(0)>>, <<R(0), R(0), R(0), R(1)>>>>

\* a.multiply(b): the product a * b
multiply(a, b) ==
  LET x == a
      y == b
      entry(i, j) ==
        RAdd(RAdd(RAdd(RMul(x[i][1], y[1][j]), RMul(x[i][2], y[2][j])),
                  RMul(x[i][3], y[3][j])), RMul(x[i][4], y[4][j]))
      row(i) == <<entry(i, 1), entry(i, 2), entry(i, 3), entry(i, 4)>>
  IN  <<row(1), row(2), row(3), row(4)>>

\* Vector3.applyMatrix4, with its perspective divide, the result stored in
\* the Float32Array of the attribute
transformed(v, m) ==
  LET row(i) == RAdd(RAdd(RAdd(RMul(m[i][1], v[1]), RMul(m[i][2], v[2])),
                          RMul(m[i][3], v[3])), m[i][4])
  IN  Only({<<Float32(RMul(row(1), w)), Float32(RMul(row(2), w)),
              Float32(RMul(row(3), w))>>
            : w \in {RDiv(R(1), row(4))}})

\* BufferAttribute.applyMatrix4: every vertex from vertex p on
RECURSIVE applyMatrix4From(_, _, _)
applyMatrix4From(pos, m, p) ==
  IF p > Len(pos) THEN <<>>
  ELSE <<transformed(pos[p], m)>> \o applyMatrix4From(pos, m, p + 1)

applyMatrix4(pos, m) == Only({applyMatrix4From(x, y, 1) : x \in {pos}, y \in {m}})

\* Matrix4.makeTranslation(x, y, z), Matrix4.makeScale(s, s, s)
makeTranslation(t) ==
  <<<<R(1), R(0), R(0), t[1]>>, <<R(0), R(1), R(0), t[2]>>,
    <<R(0), R(0), R(1), t[3]>>, <<R(0), R(0), R(0), R(1)>>>>

makeScale(s) ==
  <<<<s, R(0), R(0), R(0)>>, <<R(0), s, R(0), R(0)>>,
    <<R(0), R(0), s, R(0)>>, <<R(0), R(0), R(0), R(1)>>>>

\* BufferGeometry.translate(x, y, z), BufferGeometry.scale(s, s, s): each
\* applies the matrix of the move to the position attribute
translate(pos, t) == applyMatrix4(pos, makeTranslation(t))

scale(pos, s) == applyMatrix4(pos, makeScale(s))

(***************************************************************************)
(* The sources a load can be given: what the STL loader decodes from each. *)
(***************************************************************************)
SourceMesh(src) ==
  CASE src = "box" ->
         <<V3(1, 1, 1), V3(5, 1, 1), V3(1, 3, 3), V3(5, 3, 3), V3(1, 3, 1), V3(5, 1, 3)>>
    [] src = "tri" -> <<V3(0, 0, 0), V3(1, 0, 0), V3(0, 3, 0)>>
    [] src = "point" -> <<V3(2, 2, 2), V3(2, 2, 2), V3(2, 2, 2)>>
    [] src = "empty" -> <<>>

AllSources == {"box", "tri", "point", "empty"}

\* the number of load calls a behaviour of Spec and of SpecNormalize starts
MaxLoads == 3
\* the number of load calls a behaviour of SpecOrient starts
OrientLoads == 2
\* the number of quarter turns a behaviour of Spec makes
MaxTurns == 1
\* the same for a behaviour of SpecOrient
OrientTurns == 4

(***************************************************************************)
(* viewer.js: module state.  Objects (a geometry and the mesh built on it) *)
(* live in heap under the id of the load that created them; a module       *)
(* variable holds an id, or undefined.                                     *)
(***************************************************************************)
VARIABLES
  scene,             \* [defined, children]: unset before initViewer, else the meshes added
  heap,              \* id -> [position, disposed, matrix, source, against]
  baselineMesh, studentMesh, baselineGeometry, studentGeometry,
  studentTransform,
  pending,           \* load calls suspended at await loadGeometryFromSource
  nextId,            \* id of the next load call
  result,            \* what the step just taken returned, threw or rendered
  recent,            \* the latest orientation calls, when they are traced
  resuming           \* the page's handlers about to resume after an await

vars == <<scene, heap, baselineMesh, studentMesh, baselineGeometry, studentGeometry,
          studentTransform, pending, nextId, result, recent, resuming>>

undefined == 0

State ==
  [scene |-> scene, heap |-> heap, baselineMesh |-> baselineMesh,
   studentMesh |-> studentMesh, baselineGeometry |-> baselineGeometry,
   studentGeometry |-> studentGeometry, studentTransform |-> studentTransform,
   pending |-> pending]

\* The objects the program can still reach; the others are garbage.
Reachable(st) ==
  (st.scene.children
   \cup {st.baselineMesh, st.studentMesh, st.baselineGeometry, st.studentGeometry})
  \ {undefined}

Becomes(next) ==
  \E st \in {next} :
  /\ scene' = st.scene
  /\ heap' = [i \in DOMAIN st.heap \cap Reachable(st) |-> st.heap[i]]
  /\ baselineMesh' = st.baselineMesh
  /\ studentMesh' = st.studentMesh
  /\ baselineGeometry' = st.baselineGeometry
  /\ studentGeometry' = st.studentGeometry
  /\ studentTransform' = st.studentTransform
  /\ pending' = st.pending

NoResult == [kind |-> "none"]
Thrown(message) == [kind |-> "error", message |-> message]

\* scene.remove(mesh); mesh.geometry.dispose()
removeAndDispose(st, mesh) ==
  [st EXCEPT !.scene.children = @ \ {mesh}, !.heap[mesh].disposed = TRUE]

\* a new object in the heap
Allocate(h, id, obj) == [i \in DOMAIN h \cup {id} |-> IF i = id THEN obj ELSE h[i]]

centerGeometry(pos) ==
  Only({translate(pos, <<RNeg(center[1]), RNeg(center[2]), RNeg(center[3])>>)
        : center \in {getCenter(setFromBufferAttribute(pos))}})

computeMaxDimension(pos) ==
  Only({RMax(RMax(size[1], size[2]), size[3])
        : size \in {getSize(setFromBufferAttribute(pos))}})

initViewer(st) == [st EXCEPT !.scene = [defined |-> TRUE, children |-> {}]]

\* loadBaseline up to its await; "" when it does not throw
loadBaselineThrows(st) ==
  IF ~st.scene.defined THEN "Viewer not initialized." ELSE ""

loadBaselineBegin(st, source, id) ==
  LET st1 == IF st.baselineMesh # undefined
             THEN removeAndDispose(st, st.baselineMesh) ELSE st
  IN  [st1 EXCEPT !.pending = @ \cup {[id |-> id, fn |-> "loadBaseline", source |-> source]}]

\* loadBaseline from the resolution of its await to its return
loadBaselineEnd(st, t) ==
  LET loaded == SourceMesh(t.source)
      geometry == centerGeometry(loaded)
      obj == [position |-> geometry, disposed |-> FALSE, matrix |-> Identity,
              source |-> t.source, against |-> undefined]
  IN  [st EXCEPT !.heap = Allocate(@, t.id, obj),
                 !.baselineMesh = t.id,
                 !.baselineGeometry = t.id,
                 !.scene.children = @ \cup {t.id},
                 !.pending = @ \ {t}]

\* (a variant without the baseline check of loadStudent)
loadStudentUnguarded(st) ==
  IF ~st.scene.defined THEN "Viewer not initialized." ELSE ""

\* loadStudent up to its await; "" when it does not throw
loadStudentThrows(st) ==
  IF ~st.scene.defined THEN "Viewer not initialized."
  ELSE IF st.baselineGeometry = undefined
       THEN "Load the baseline before loading a student model."
       ELSE ""

loadStudentBegin(st, source, id) ==
  LET st1 == IF st.studentMesh # undefined
             THEN removeAndDispose(st, st.studentMesh) ELSE st
  IN  [st1 EXCEPT !.pending = @ \cup {[id |-> id, fn |-> "loadStudent", source |-> source]}]

\* (a variant that never scales)
unscaled(baselineMax, studentMax) == R(1)

\* const scale = studentMax > 0 ? baselineMax / studentMax : 1
studentScale(baselineMax, studentMax) ==
  IF RLt(R(0), studentMax) THEN RDiv(baselineMax, studentMax) ELSE R(1)

\* (a variant that keeps the orientation of the previous student model)
keptTransform(old) == old

\* the orientation a freshly loaded student model gets
freshTransform(old) == Identity

\* loadStudent from the resolution of its await to its return
loadStudentEnd(st, t) ==
  LET loaded == SourceMesh(t.source)
      centered == centerGeometry(loaded)
      baselinePosition == st.heap[st.baselineGeometry].position
      baselineMax == computeMaxDimension(baselinePosition)
      studentMax == computeMaxDimension(centered)
      by == studentScale(baselineMax, studentMax)
      geometry == scale(centered, by)
      transform == freshTransform(st.studentTransform)
      obj == [position |-> geometry, disposed |-> FALSE, matrix |-> transform,
              source |-> t.source, against |-> st.baselineGeometry]
  IN  [st EXCEPT !.heap = Allocate(@, t.id, obj),
                 !.studentGeometry = t.id,
                 !.studentTransform = transform,
                 !.studentMesh = t.id,
                 !.scene.children = @ \cup {t.id},
                 !.pending = @ \ {t}]

\* a load whose source cannot be read or parsed: the await rejects
loadRejected(st, t) == [st EXCEPT !.pending = @ \ {t}]

\* (a variant that ignores the direction)
rotationOneWay(axis, direction) ==
  IF axis = "x" THEN makeRotationX(1) ELSE makeRotationY(1)

\* the quarter turn rotateStudent builds for an accepted axis
rotation(axis, direction) ==
  LET angle == IF direction > 0 THEN 1 ELSE -1
  IN  IF axis = "x" THEN makeRotationX(angle) ELSE makeRotationY(angle)

\* (a variant that multiplies on the right: a turn about the model's own axis)
composedRight(rot, transform) == multiply(transform, rot)

\* studentTransform = rotation.multiply(studentTransform)
composed(rot, transform) == multiply(rot, transform)

\* rotateStudent returns before it composes a turn: no student model, or an
\* axis that is neither 'x' nor 'y'
returnsEarly(st, axis) ==
  \/ st.studentMesh = undefined \/ st.studentGeometry = undefined
  \/ axis \notin {"x", "y"}

rotateStudent(st, axis, direction) ==
  IF returnsEarly(st, axis) THEN st
  ELSE LET rot == rotation(axis, direction)
           old == st.studentTransform
           transform == composed(rot, old)
       IN  [st EXCEPT !.studentTransform = transform,
                      !.heap[st.studentMesh].matrix = transform]

resetStudentOrientation(st) ==
  IF st.studentMesh = undefined THEN st
  ELSE [st EXCEPT !.studentTransform = Identity,
                  !.heap[st.studentMesh].matrix = Identity]

\* (a variant that bakes the transform into the stored geometry itself)
aliasOf(id) == id

\* studentGeometry.clone(): the object the clone is, a new one (objects made
\* within a call and dropped at its end are kept under negative ids)
clone(id) == -id

\* getNormalizedGeometries: the value returned and the state it leaves
getNormalizedGeometries(st) ==
  IF st.baselineGeometry = undefined \/ st.studentGeometry = undefined
  THEN [state |-> st, value |-> [kind |-> "null"]]
  ELSE LET studentClone == clone(st.studentGeometry)
           h1 == Allocate(st.heap, studentClone, st.heap[st.studentGeometry])
           transform == st.studentTransform
           h2 == [h1 EXCEPT ![studentClone].position = applyMatrix4(@, transform)]
       IN  [state |-> [st EXCEPT !.heap = [i \in DOMAIN st.heap |-> h2[i]]],
            value |-> [kind |-> "geometries",
                       baseline |-> st.baselineGeometry,
                       baselinePosition |-> h2[st.baselineGeometry].position,
                       studentOf |-> st.studentGeometry,
                       student |-> h2[studentClone].position]]

(***************************************************************************)
(* The record of orientation calls.  turns: the number of rotateStudent    *)
(* calls that took effect so far.  When the calls are traced (on): the     *)
(* last two rotateStudent calls that took effect since the transform was   *)
(* last set to the identity, each with the transform it found, and the     *)
(* number of rotateStudent('x', 1) calls in a row since                    *)
(* resetStudentOrientation last took effect (-1 when another call came     *)
(* between).                                                               *)
(***************************************************************************)
NoTrace == [on |-> FALSE, calls |-> <<>>, run |-> -1, turns |-> 0]
EmptyTrace == [on |-> TRUE, calls |-> <<>>, run |-> -1, turns |-> 0]

LastTwo(calls) == IF Len(calls) > 2 THEN Tail(calls) ELSE calls

TraceRotate(axis, direction) ==
  IF returnsEarly(State, axis) THEN recent
  ELSE IF ~recent.on THEN [recent EXCEPT !.turns = @ + 1]
  ELSE [recent EXCEPT
          !.calls = LastTwo(Append(@, [axis |-> axis, direction |-> direction,
                                      before |-> studentTransform])),
          !.run = IF axis = "x" /\ direction > 0 /\ @ \in 0..3 THEN @ + 1 ELSE -1,
          !.turns = @ + 1]

TraceReset ==
  IF studentMesh = undefined \/ ~recent.on THEN recent
  ELSE [recent EXCEPT !.calls = <<>>, !.run = 0]

TraceOther == IF ~recent.on THEN recent ELSE [recent EXCEPT !.calls = <<>>, !.run = -1]

(***************************************************************************)
(* The exported functions of viewer.js as calls of an embedding page.      *)
(***************************************************************************)
\* no handler of the page is about to resume
NoneResuming == [queue |-> <<>>, open |-> FALSE]

Init ==
  /\ scene = [defined |-> FALSE, children |-> {}]
  /\ heap = <<>>
  /\ baselineMesh = undefined
  /\ studentMesh = undefined
  /\ baselineGeometry = undefined
  /\ studentGeometry = undefined
  /\ studentTransform = Identity
  /\ pending = {}
  /\ nextId = 1
  /\ result = NoResult
  /\ recent = NoTrace
  /\ resuming = NoneResuming

\* initViewer, called for the first time or again: the scene is a new one
InitViewer ==
  /\ LET st == State IN Becomes(initViewer(st))
  /\ result' = NoResult
  /\ UNCHANGED <<nextId, recent, resuming>>

LoadBaseline(source, limit) ==
  /\ nextId <= limit
  /\ LET message == loadBaselineThrows(State)
     IN  IF message # ""
         THEN /\ UNCHANGED <<scene, heap, baselineMesh, studentMesh, baselineGeometry,
                             studentGeometry, studentTransform, pending, nextId>>
              /\ result' = Thrown(message)
         ELSE /\ LET st == State IN Becomes(loadBaselineBegin(st, source, nextId))
              /\ nextId' = nextId + 1
              /\ result' = NoResult
  /\ UNCHANGED <<recent, resuming>>

LoadBaselineResolve(t) ==
  /\ t.fn = "loadBaseline"
  /\ LET st == State IN Becomes(loadBaselineEnd(st, t))
  /\ result' = [kind |-> "geometry", fn |-> t.fn, id |-> t.id]
  /\ UNCHANGED <<nextId, recent, resuming>>

\* what a failed load rejects with: the error of readFileAsArrayBuffer, or
\* the parser's or the loader's own
LoadErrors == {"Failed to read file.", "Invalid STL data."}

LoadBaselineReject(t, error) ==
  /\ t.fn = "loadBaseline"
  /\ LET st == State IN Becomes(loadRejected(st, t))
  /\ result' = Thrown(error)
  /\ UNCHANGED <<nextId, recent, resuming>>

LoadStudent(source, limit) ==
  /\ nextId <= limit
  /\ LET message == loadStudentThrows(State)
     IN  IF message # ""
         THEN /\ UNCHANGED <<scene, heap, baselineMesh, studentMesh, baselineGeometry,
                             studentGeometry, studentTransform, pending, nextId>>
              /\ result' = Thrown(message)
         ELSE /\ LET st == State IN Becomes(loadStudentBegin(st, source, nextId))
              /\ nextId' = nextId + 1
              /\ result' = NoResult
  /\ UNCHANGED <<recent, resuming>>

LoadStudentResolve(t) ==
  /\ t.fn = "loadStudent"
  /\ LET st == State IN Becomes(loadStudentEnd(st, t))
  /\ result' = [kind |-> "geometry", fn |-> t.fn, id |-> t.id, found |-> studentTransform]
  /\ recent' = TraceOther
  /\ UNCHANGED <<nextId, resuming>>

LoadStudentReject(t, error) ==
  /\ t.fn = "loadStudent"
  /\ LET st == State IN Becomes(loadRejected(st, t))
  /\ result' = Thrown(error)
  /\ UNCHANGED <<nextId, recent, resuming>>

RotateStudent(axis, direction, limit) ==
  /\ TraceRotate(axis, direction).turns <= limit
  /\ recent' = TraceRotate(axis, direction)
  /\ result' = NoResult
  /\ UNCHANGED <<nextId, resuming>>
  /\ LET st == State IN Becomes(rotateStudent(st, axis, direction))

ResetStudentOrientation ==
  /\ recent' = TraceReset
  /\ result' = NoResult
  /\ UNCHANGED <<nextId, resuming>>
  /\ LET st == State IN Becomes(resetStudentOrientation(st))

GetNormalizedGeometries ==
  /\ UNCHANGED <<nextId, recent, resuming>>
  /\ \E got \in {getNormalizedGeometries(State)} :
       /\ Becomes(got.state)
       /\ result' = got.value

Axes == {"x", "y", "z"}
Directions == {1, -1}

\* the calls that change the store, in any order and overlap
Next ==
  \/ InitViewer
  \/ LoadBaseline("box", MaxLoads)
  \/ \E t \in pending : LoadBaselineResolve(t)
  \/ \E t \in pending, error \in LoadErrors : LoadBaselineReject(t, error)
  \/ LoadStudent("tri", MaxLoads)
  \/ \E t \in pending : LoadStudentResolve(t)
  \/ \E t \in pending, error \in LoadErrors : LoadStudentReject(t, error)
  \/ \E axis \in Axes, direction \in Directions : RotateStudent(axis, direction, MaxTurns)
  \/ ResetStudentOrientation

Spec == Init /\ [][Next]_vars

\* the loads alone, over every kind of source
NextNormalize ==
  \/ InitViewer
  \/ \E source \in AllSources : LoadBaseline(source, MaxLoads)
  \/ \E t \in pending : LoadBaselineResolve(t)
  \/ \E t \in pending, error \in LoadErrors : LoadBaselineReject(t, error)
  \/ \E source \in AllSources : LoadStudent(source, MaxLoads)
  \/ \E t \in pending : LoadStudentResolve(t)
  \/ \E t \in pending, error \in LoadErrors : LoadStudentReject(t, error)

SpecNormalize == Init /\ [][NextNormalize]_vars

\* the orientation calls traced, with getNormalizedGeometries, after
\* initViewer
InitOrient ==
  /\ scene = [defined |-> TRUE, children |-> {}]
  /\ heap = <<>>
  /\ baselineMesh = undefined
  /\ studentMesh = undefined
  /\ baselineGeometry = undefined
  /\ studentGeometry = undefined
  /\ studentTransform = Identity
  /\ pending = {}
  /\ nextId = 1
  /\ result = NoResult
  /\ recent = EmptyTrace
  /\ resuming = NoneResuming

NextOrient ==
  \/ LoadBaseline("box", OrientLoads)
  \/ \E t \in pending : LoadBaselineResolve(t)
  \/ LoadStudent("tri", OrientLoads)
  \/ \E t \in pending : LoadStudentResolve(t)
  \/ \E axis \in Axes, direction \in Directions :
       RotateStudent(axis, direction, OrientTurns)
  \/ ResetStudentOrientation
  \/ GetNormalizedGeometries

SpecOrient == InitOrient /\ [][NextOrient]_vars

(***************************************************************************)
(* The page: main() has run.  A task is a click, or the loader delivering  *)
(* one or more sources; the functions its deliveries resume run one after  *)
(* the other, first each load function to its return, then, in the same    *)
(* order, the handleLoadModels call that awaited it.                       *)
(***************************************************************************)
\* the number of clicks on the load button in a behaviour of SpecUI
MaxClicks == 2
\* the number of quarter turns a behaviour of SpecUI makes
ClickTurns == 2

\* updateMetrics: the state it leaves and what it renders (geometries is the
\* constant of the code, bound once to what getNormalizedGeometries returns)
updateMetrics(st) ==
  CHOOSE done \in
    {IF geometries.value.kind = "null"
     THEN [state |-> geometries.state, rendered |-> NoResult]
     ELSE [state |-> geometries.state,
           rendered |->
             [kind |-> "report",
              report |-> compareModels(geometries.value.baselinePosition,
                                       geometries.value.student),
              baseline |-> geometries.value.baseline,
              studentOf |-> geometries.value.studentOf,
              transform |-> st.studentTransform,
              studentDisposed |-> st.heap[geometries.value.studentOf].disposed,
              studentAgainst |-> st.heap[geometries.value.studentOf].against]]
       : geometries \in {getNormalizedGeometries(st)}} : TRUE

InitUI ==
  /\ scene = [defined |-> TRUE, children |-> {}]
  /\ heap = <<>>
  /\ baselineMesh = undefined
  /\ studentMesh = undefined
  /\ baselineGeometry = undefined
  /\ studentGeometry = undefined
  /\ studentTransform = Identity
  /\ pending = {}
  /\ nextId = 1
  /\ result = NoResult
  /\ recent = NoTrace
  /\ resuming = NoneResuming

\* no function is about to resume: the next task can start
Idle == resuming.queue = <<>>

\* the loader can deliver a source: in a task of its own, or in the task of
\* the deliveries before it, none of whose handlers has resumed yet
Delivering == Idle \/ resuming.open

\* handleLoadModels resumes after `await load...`: then is what it goes on to
\* and error what it has caught
Await(then, id, error) ==
  [queue |-> Append(resuming.queue, [then |-> then, id |-> id, error |-> error]),
   open |-> TRUE]

Awaiting(then, id) == Await(then, id, "")

\* the handler at the head of the queue has run
Resumed == [queue |-> Tail(resuming.queue), open |-> FALSE]

\* a click on the load button: handleLoadModels up to await loadBaseline(...)
HandleLoadModels(source) ==
  /\ Idle
  /\ nextId + 1 <= 2 * MaxClicks
  /\ LET message == loadBaselineThrows(State)
     IN  IF message # ""
         THEN /\ UNCHANGED <<scene, heap, baselineMesh, studentMesh, baselineGeometry,
                             studentGeometry, studentTransform, pending, nextId>>
              /\ result' = Thrown(message)
         ELSE /\ LET st == State IN Becomes(loadBaselineBegin(st, source, nextId))
              /\ nextId' = nextId + 2
              /\ result' = NoResult
  /\ UNCHANGED <<recent, resuming>>

\* the loader delivers a baseline: loadBaseline resumes and returns
BaselineLoaded(t) ==
  /\ Delivering
  /\ t.fn = "loadBaseline"
  /\ LET st == State IN Becomes(loadBaselineEnd(st, t))
  /\ result' = [kind |-> "geometry", fn |-> t.fn, id |-> t.id]
  /\ resuming' = Awaiting("loadStudent", t.id)
  /\ UNCHANGED <<nextId, recent>>

\* handleLoadModels resumes after await loadBaseline(...) and goes on to
\* await loadStudent(...)
HandleBaselineLoaded(source) ==
  /\ ~Idle
  /\ Head(resuming.queue).then = "loadStudent"
  /\ LET st == State
         message == loadStudentThrows(st)
     IN  IF message # ""
         THEN Becomes(st) /\ result' = Thrown(message)
         ELSE /\ Becomes(loadStudentBegin(st, source, Head(resuming.queue).id + 1))
              /\ result' = NoResult
  /\ resuming' = Resumed
  /\ UNCHANGED <<nextId, recent>>

\* the loader delivers a student model: loadStudent resumes and returns
StudentLoaded(t) ==
  /\ Delivering
  /\ t.fn = "loadStudent"
  /\ LET st == State IN Becomes(loadStudentEnd(st, t))
  /\ result' = [kind |-> "geometry", fn |-> t.fn, id |-> t.id, found |-> studentTransform]
  /\ recent' = TraceOther
  /\ resuming' = Awaiting("updateMetrics", t.id)
  /\ UNCHANGED nextId

\* handleLoadModels resumes after await loadStudent(...), calls updateMetrics
\* and ends
HandleStudentLoaded ==
  /\ ~Idle
  /\ Head(resuming.queue).then = "updateMetrics"
  /\ \E done \in {updateMetrics(State)} :
       Becomes(done.state) /\ result' = done.rendered
  /\ resuming' = Resumed
  /\ UNCHANGED <<nextId, recent>>

\* the loader fails on a source: the load function throws
LoadFailed(t, error) ==
  /\ Delivering
  /\ LET st == State IN Becomes(loadRejected(st, t))
  /\ result' = Thrown(error)
  /\ resuming' = Await("catch", t.id, error)
  /\ UNCHANGED <<nextId, recent>>

\* handleLoadModels catches what either load threw, reports it and ends
HandleLoadFailed ==
  /\ ~Idle
  /\ Head(resuming.queue).then = "catch"
  /\ result' = Thrown(Head(resuming.queue).error)
  /\ resuming' = Resumed
  /\ UNCHANGED <<scene, heap, baselineMesh, studentMesh, baselineGeometry, studentGeometry,
                 studentTransform, pending, nextId, recent>>

\* a click on one of the four rotate buttons
RotateAndReport(axis, direction) ==
  /\ Idle
  /\ TraceRotate(axis, direction).turns <= ClickTurns
  /\ \E done \in {updateMetrics(rotateStudent(State, axis, direction))} :
       Becomes(done.state) /\ result' = done.rendered
  /\ recent' = TraceRotate(axis, direction)
  /\ UNCHANGED <<nextId, resuming>>

\* a click on the reset button
ResetAndReport ==
  /\ Idle
  /\ \E done \in {updateMetrics(resetStudentOrientation(State))} :
       Becomes(done.state) /\ result' = done.rendered
  /\ recent' = TraceReset
  /\ UNCHANGED <<nextId, resuming>>

NextUI ==
  \/ HandleLoadModels("box")
  \/ \E t \in pending : BaselineLoaded(t)
  \/ HandleBaselineLoaded("tri")
  \/ \E t \in pending : StudentLoaded(t)
  \/ HandleStudentLoaded
  \/ \E t \in pending, error \in LoadErrors : LoadFailed(t, error)
  \/ HandleLoadFailed
  \/ \E axis \in {"x", "y"}, direction \in Directions : RotateAndReport(axis, direction)
  \/ ResetAndReport

SpecUI == InitUI /\ [][NextUI]_vars

(***************************************************************************)
(* compare.js called on its own: a behaviour is one call from the initial  *)
(* state, result holds its arguments and the value returned.               *)
(***************************************************************************)
\* measurements are the quotients n / d with |n| <= MaxMeasure, d in {1, 2},
\* and -0
MaxMeasure == 4
\* meshes of up to MaxTriangles triangles
MaxTriangles == 2

Measures == {Norm(n, d) : n \in (0 - MaxMeasure)..MaxMeasure, d \in {1, 2}} \cup {Zero(-1)}

\* the sizes a turned flat model has where a size of 0 is meant: multiples of eps
SmallMeasures == {RMul(R(n), Eps) : n \in {2, 6}}

\* the corners triangles are drawn from
Corners == {V3(1, 0, 0), V3(0, 1, 0), V3(-1, 1, 2)}

Triangles == {<<p1, p2, p3>> : p1 \in Corners, p2 \in Corners, p3 \in Corners}

RECURSIVE MeshesOf(_)
MeshesOf(n) ==
  IF n = 0 THEN {<<>>}
  ELSE LET smaller == MeshesOf(n - 1)
       IN  smaller \cup {m \o tri : m \in smaller, tri \in Triangles}

\* the attributes of one or two vertices
Partial == {<<p1>> : p1 \in Corners} \cup {<<p1, p2>> : p1 \in Corners, p2 \in Corners}

\* whole triangles, the attributes of fewer than 3 vertices, and those of 4
\* and 5 vertices: a triangle and part of another
Meshes ==
  MeshesOf(MaxTriangles) \cup Partial \cup {tri \o more : tri \in Triangles, more \in Partial}

Called(fn, args, value) == [kind |-> fn, args |-> args, outcome |-> "return", value |-> value]

ViewerIdle ==
  UNCHANGED <<scene, heap, baselineMesh, studentMesh, baselineGeometry, studentGeometry,
              studentTransform, pending, nextId, recent, resuming>>

CallPercentDifference(baseline, student) ==
  /\ result = NoResult
  /\ result' = Called("percentDifference", <<baseline, student>>,
                      percentDifference(baseline, student))
  /\ ViewerIdle

CallComputeApproxVolume(geometry) ==
  /\ result = NoResult
  /\ result' = Called("computeApproxVolume", <<geometry>>, computeApproxVolume(geometry))
  /\ ViewerIdle

CallComputeBoundingBox(geometry) ==
  /\ result = NoResult
  /\ result' = Called("computeBoundingBox", <<geometry>>, computeBoundingBox(geometry))
  /\ ViewerIdle

CallCompareModels(baseline, student) ==
  /\ result = NoResult
  /\ result' = Called("compareModels", <<baseline, student>>,
                      compareModels(baseline, student))
  /\ ViewerIdle

NextMetrics ==
  \/ \E baseline \in Measures \cup SmallMeasures, student \in Measures \cup SmallMeasures :
       CallPercentDifference(baseline, student)
  \/ \E geometry \in Meshes : CallComputeApproxVolume(geometry)
  \/ \E source \in AllSources : CallComputeBoundingBox(SourceMesh(source))
  \/ \E baseline \in AllSources, student \in AllSources :
       CallCompareModels(SourceMesh(baseline), SourceMesh(student))

SpecMetrics == Init /\ [][NextMetrics]_vars

(***************************************************************************)
(* Properties.                                                             *)
(***************************************************************************)
\* the upper-left 3x3 block of a transform
Block(m) == [i \in 1..3 |-> [j \in 1..3 |-> m[i][j]]]

Sum3(a, b, c) == RAdd(RAdd(a, b), c)

\* the columns of m are of length 1 and at right angles
IsOrthogonal(m) ==
  \A i \in 1..3, j \in 1..3 :
    Same(Sum3(RMul(m[1][i], m[1][j]), RMul(m[2][i], m[2][j]), RMul(m[3][i], m[3][j])),
         IF i = j THEN R(1) ELSE R(0))

Minor(m, j, k) == RSub(RMul(m[2][j], m[3][k]), RMul(m[2][k], m[3][j]))

Determinant(m) ==
  Sum3(RMul(m[1][1], Minor(m, 2, 3)),
       RNeg(RMul(m[1][2], Minor(m, 1, 3))),
       RMul(m[1][3], Minor(m, 1, 2)))

IsPureRotation(m) ==
  /\ IsOrthogonal(Block(m))
  /\ Same(Determinant(Block(m)), R(1))
  /\ \A i \in 1..3 : Same(m[i][4], R(0))

\* floating tolerance: 4 * eps = 2.4e-16
Tolerance == RMul(R(4), Eps)

\* 2^-50 = 8.9e-16: the relative error the rounding of a few operations
\* leaves is below it
Rounding == [kind |-> "fin", sign |-> 1, exp |-> -102, man |-> <<0, 0, 0, 1024>>]

\* a and b are numbers no more than the tolerance apart
Within(a, b, tolerance) ==
  \E differ \in {RAbs(RSub(a, b))} : differ.kind = "fin" /\ ~RLt(tolerance, differ)

\* a number as it is when the cosine of a quarter turn is exactly 0: the one
\* of -1, 0, 1 it is within 2^-50 of (NaN when there is none)
Exact(x) ==
  IF Within(x, R(0), Rounding) THEN R(0)
  ELSE IF Within(x, R(1), Rounding) THEN R(1)
  ELSE IF Within(x, R(-1), Rounding) THEN R(-1)
  ELSE NaN

ExactEntries(m) ==
  LET row(i) == <<Exact(m[i][1]), Exact(m[i][2]), Exact(m[i][3]), Exact(m[i][4])>>
  IN  <<row(1), row(2), row(3), row(4)>>

\* C1 (SpecOrient): in every reachable state the orientation transform is
\* a pure rotation: with the quarter turn matrices taken exactly (the cosine
\* eps as 0) its upper-left 3x3 block is orthogonal with determinant +1, and
\* its translation column is zero.
C1_PureRotation ==
  /\ \E exact \in {ExactEntries(studentTransform)} : IsPureRotation(exact)
  /\ \A i \in 1..3 : Same(studentTransform[i][4], R(0))

\* a student model is loaded and has been turned away from the identity
C1_Turned ==
  /\ studentGeometry # undefined
  /\ studentTransform # Identity
  /\ heap[studentMesh].matrix = studentTransform

StoreUnchanged ==
  UNCHANGED <<scene, heap, baselineMesh, studentMesh, baselineGeometry, studentGeometry,
              studentTransform, pending>>

\* C3 (Spec): a loadStudent call made while baselineGeometry is unset throws
\* "Load the baseline before loading a student model." (or, before initViewer,
\* "Viewer not initialized.") and leaves the student mesh, the student
\* geometry, the transform, the scene and the pending loads unchanged.
C3_StudentNeedsBaseline ==
  [][(LoadStudent("tri", MaxLoads) /\ baselineGeometry = undefined)
       => /\ result'.kind = "error"
          /\ scene.defined
               => result' = Thrown("Load the baseline before loading a student model.")
          /\ StoreUnchanged]_vars

\* loadStudent has just thrown while the first loadBaseline awaits its source
C3_ThrownWhileBaselineLoads ==
  /\ result = Thrown("Load the baseline before loading a student model.")
  /\ baselineGeometry = undefined
  /\ \E t \in pending : t.fn = "loadBaseline"

\* the step just taken is the successful completion of a loadStudent call
StudentJustLoaded == result.kind = "geometry" /\ result.fn = "loadStudent"

\* C6 (Spec): when a loadStudent call completes, the orientation transform
\* and the matrix of the new mesh are the identity, whatever the transform
\* was before the completion.
C6_FreshIdentity ==
  StudentJustLoaded
    => /\ studentTransform = Identity
       /\ studentGeometry = result.id
       /\ heap[studentMesh].matrix = Identity

\* a loadStudent completed that found the transform turned
C6_LoadedOverTurned ==
  /\ StudentJustLoaded
  /\ result.found # Identity
  /\ studentTransform = Identity

\* the last two rotateStudent calls were on one axis, in opposite directions
InversePair ==
  /\ Len(recent.calls) = 2
  /\ recent.calls[1].axis = recent.calls[2].axis
  /\ recent.calls[1].direction + recent.calls[2].direction = 0

\* two transforms equal within floating tolerance: their entries differ by
\* at most 4 * eps = 2.4e-16
Near(a, b) == \A i \in 1..4, j \in 1..4 : Within(a[i][j], b[i][j], Tolerance)

\* two transforms equal entry by entry, as === compares
SameEntries(a, b) == \A i \in 1..4, j \in 1..4 : Same(a[i][j], b[i][j])

\* C2 as stated (SpecOrient): with a student model loaded, four
\* rotateStudent('x', 1) calls in a row after resetStudentOrientation leave
\* the transform equal to the identity, and rotateStudent(axis, d) followed
\* by rotateStudent(axis, -d) leaves the transform equal to the one the
\* first of the two calls found.
C2_TurnsRestoreExactly ==
  /\ recent.run = 4 => SameEntries(studentTransform, Identity)
  /\ InversePair => SameEntries(studentTransform, recent.calls[1].before)

\* C2 amended (SpecOrient): four rotateStudent('x', 1) calls in a row after
\* resetStudentOrientation leave the transform equal to the identity within
\* floating tolerance, and rotateStudent(axis, d) followed by
\* rotateStudent(axis, -d) leaves it equal, within floating tolerance, to
\* the transform the first of the two calls found.
C2_TurnsCompose ==
  /\ recent.run = 4 => Near(studentTransform, Identity)
  /\ InversePair => Near(studentTransform, recent.calls[1].before)

\* a full turn about x has just been completed on a loaded student model:
\* the transform is the identity but for entries of 4 * eps
C2_FullTurn ==
  /\ recent.run = 4
  /\ studentGeometry # undefined
  /\ ~SameEntries(studentTransform, Identity)
  /\ studentTransform[2][3] = RMul(R(4), Eps)

\* a turn about y and its inverse have just been made from a turned transform
C2_TurnedBack ==
  /\ InversePair
  /\ recent.calls[1].axis = "y"
  /\ recent.calls[1].before # Identity
  /\ Near(studentTransform, recent.calls[1].before)

\* the stored objects without the matrices of their meshes
Stored == [i \in DOMAIN heap |-> [heap[i] EXCEPT !.matrix = Identity]]

OrientationStep ==
  \/ \E axis \in Axes, direction \in Directions :
       RotateStudent(axis, direction, OrientTurns)
  \/ ResetStudentOrientation

\* C5 (SpecOrient): rotateStudent and resetStudentOrientation change nothing
\* but the transform and the mesh's matrix copy of it, and
\* getNormalizedGeometries changes nothing at all: it returns the stored
\* baseline and the stored student vertices with the transform applied, and
\* the stored vertices of both models are the same before and after.
C5_StoredVerticesKept ==
  [][/\ OrientationStep
          => /\ Stored' = Stored
             /\ UNCHANGED <<scene, baselineMesh, studentMesh, baselineGeometry,
                            studentGeometry, pending>>
     /\ GetNormalizedGeometries
          => /\ UNCHANGED <<scene, heap, baselineMesh, studentMesh, baselineGeometry,
                            studentGeometry, studentTransform, pending>>
             /\ result'.kind = "geometries"
                  => /\ result'.baselinePosition = heap[baselineGeometry].position
                     /\ result'.student
                          = applyMatrix4(heap[studentGeometry].position, studentTransform)
    ]_vars

\* getNormalizedGeometries has returned turned vertices, the stored ones kept
C5_TurnedCopy ==
  /\ result.kind = "geometries"
  /\ studentTransform # Identity
  /\ result.student # heap[studentGeometry].position
  /\ heap[studentGeometry].position = heap[result.studentOf].position
  /\ heap[studentMesh].matrix = studentTransform

\* the student model as loadStudent has it before scaling: decoded and centered
BeforeScaling(id) == centerGeometry(SourceMesh(heap[id].source))

\* C8 (SpecNormalize): when a loadStudent call completes, the largest
\* bounding-box dimension of the stored student vertices equals that of the
\* baseline it was loaded against, unless the largest dimension of the
\* centered student vertices was 0: then they are stored centered, unscaled.
C8_ScaledToBaseline ==
  StudentJustLoaded
    => /\ heap[studentGeometry].against = baselineGeometry
       /\ \E before \in {BeforeScaling(studentGeometry)} :
            IF Same(computeMaxDimension(before), R(0))
            THEN heap[studentGeometry].position = before
            ELSE Same(computeMaxDimension(heap[studentGeometry].position),
                      computeMaxDimension(heap[baselineGeometry].position))

\* a triangle of largest dimension 3 has been loaded against a box of
\* largest dimension 4 and stored scaled
C8_TriangleScaledToBox ==
  /\ StudentJustLoaded
  /\ heap[studentGeometry].source = "tri"
  /\ heap[baselineGeometry].source = "box"
  /\ computeMaxDimension(BeforeScaling(studentGeometry)) = R(3)
  /\ computeMaxDimension(heap[studentGeometry].position) = R(4)

\* a model without extent has been loaded against the box and stored unscaled
C8_PointUnscaled ==
  /\ StudentJustLoaded
  /\ heap[studentGeometry].source = "point"
  /\ heap[baselineGeometry].source = "box"
  /\ heap[studentGeometry].position = <<V3(0, 0, 0), V3(0, 0, 0), V3(0, 0, 0)>>

\* C4 (SpecUI): every report updateMetrics renders is computed from the
\* current baseline and from a student model that is not disposed and was
\* scaled against that baseline, with the current transform applied.
C4_ReportFromCurrent ==
  result.kind = "report"
    => /\ result.baseline = baselineGeometry
       /\ result.studentOf = studentGeometry
       /\ result.transform = studentTransform
       /\ ~result.studentDisposed
       /\ result.studentAgainst = result.baseline

\* a and b are equal but for the rounding of a few operations
Close(a, b) == Within(a, b, RMul(RAbs(b), Rounding))

\* C7 (SpecMetrics): percentDifference(b, c) is 0 when b = 0 and c = 0, the
\* +Infinity sentinel when b = 0 and c # 0 (be c as small as 2 * eps), and
\* otherwise the number v = (c - b) / b * 100, for which v * b is
\* (c - b) * 100 but for rounding; so it is 0 when c = b, and 100 when
\* c = 2b, b # 0.
C7_PercentDifference ==
  result.kind = "percentDifference"
    => LET b == result.args[1]
           c == result.args[2]
           v == result.value
       IN  /\ (IsZero(b) /\ IsZero(c)) => v = R(0)
           /\ (IsZero(b) /\ ~IsZero(c)) => v = PosInf
           /\ ~IsZero(b) => /\ v.kind = "fin"
                            /\ v = RMul(RDiv(RSub(c, b), b), R(100))
                            /\ Close(RMul(v, b), RMul(RSub(c, b), R(100)))
           /\ Same(c, b) => Same(v, R(0))
           /\ (~IsZero(b) /\ c = RAdd(b, b)) => v = R(100)

\* a student value of twice a nonzero baseline value has scored 100
C7_TwiceScoresHundred ==
  /\ result.kind = "percentDifference"
  /\ result.args[1] = Norm(3, 2)
  /\ result.args[2] = R(3)
  /\ result.value = R(100)

\* a student value of 6 * eps against a zero baseline has scored the sentinel
C7_Sentinel ==
  /\ result.kind = "percentDifference"
  /\ result.args[1] = R(0)
  /\ result.args[2] = RMul(R(6), Eps)
  /\ result.value = PosInf

\* C9 (SpecMetrics): computeBoundingBox or compareModels called with a mesh
\* of zero vertices ends in an error, and returns no report.
C9_EmptyMeshIsAnError ==
  (/\ result.kind \in {"computeBoundingBox", "compareModels"}
   /\ \E i \in DOMAIN result.args : Len(result.args[i]) = 0)
    => result.outcome = "error"

\* the determinant of three rows of integers
Det3(m) ==
  m[1][1] * (m[2][2] * m[3][3] - m[2][3] * m[3][2])
  - m[1][2] * (m[2][1] * m[3][3] - m[2][3] * m[3][1])
  + m[1][3] * (m[2][1] * m[3][2] - m[2][2] * m[3][1])

\* the integer a coordinate of an integer mesh is
IntOf(x) ==
  LET whole == ShiftRight(Wide(x.man), 0 - x.exp)
  IN  x.sign * (whole[1] + whole[2] * Base)

\* six times the signed volume of an integer mesh, by the determinant of each
\* of its whole triangles' three vertices
RECURSIVE SixFold(_, _)
SixFold(pos, i) ==
  IF i + 2 > Len(pos) THEN 0
  ELSE LET a == [k \in 1..3 |-> IntOf(pos[i][k])]
           b == [k \in 1..3 |-> IntOf(pos[i + 1][k])]
           c == [k \in 1..3 |-> IntOf(pos[i + 2][k])]
       IN  Det3(<<a, b, c>>) + SixFold(pos, i + 3)

\* the same vertices with the winding of every whole triangle reversed
Rewound(pos) ==
  LET whole == Len(pos) - (Len(pos) % 3)
  IN  [i \in 1..Len(pos) |->
         IF i > whole THEN pos[i]
         ELSE IF i % 3 = 2 THEN pos[i + 1]
         ELSE IF i % 3 = 0 THEN pos[i - 1]
         ELSE pos[i]]

\* v >= 0, as JS compares: false of NaN
NotNegative(v) == Same(v, R(0)) \/ RLt(R(0), v)

\* what C10 says of a call on pos that returned v: v is the absolute value
\* of the sum over the triangles of p1 . (p2 x p3) / 6, so v >= 0 and v is
\* the volume of the mesh with every winding reversed
AbsoluteSum(pos, v) ==
  /\ NotNegative(v)
  /\ Same(v, Norm(Abs(SixFold(pos, 1)), 6))
  /\ Same(v, computeApproxVolume(Rewound(pos)))

C10_IncompleteTriangle ==
  /\ result.kind = "computeApproxVolume"
  /\ Len(result.args[1]) = 4
  /\ result.value = NaN

\* a mesh of two vertices has been measured as 0
C10_TooFewVertices ==
  /\ result.kind = "computeApproxVolume"
  /\ Len(result.args[1]) = 2
  /\ result.value = R(0)

\* the quarter turns about the world axes, entry by entry: the sines are
\* +-1, the cosines eps
QuarterTurn(axis, direction) ==
  IF axis = "x"
  THEN <<<<R(1), R(0), R(0), R(0)>>, <<R(0), Eps, R(-direction), R(0)>>,
         <<R(0), R(direction), Eps, R(0)>>, <<R(0), R(0), R(0), R(1)>>>>
  ELSE <<<<Eps, R(0), R(direction), R(0)>>, <<R(0), R(1), R(0), R(0)>>,
         <<R(-direction), R(0), Eps, R(0)>>, <<R(0), R(0), R(0), R(1)>>>>

\* the matrix product, written out for the property
Product(a, b) ==
  [i \in 1..4 |-> [j \in 1..4 |->
     RAdd(RAdd(RMul(a[i][1], b[1][j]), RMul(a[i][2], b[2][j])),
          RAdd(RMul(a[i][3], b[3][j]), RMul(a[i][4], b[4][j])))]]

\* the latest rotateStudent call that took effect
LastCall == recent.calls[Len(recent.calls)]

\* C11 (SpecOrient): a rotateStudent(axis, direction) call with axis x or y
\* on a loaded student model leaves the transform at R * T, for R the quarter
\* turn about the world axis and T the transform the call found; after
\* rotateStudent('x', 1) and rotateStudent('y', 1) from the identity the
\* transform is Ry * Rx.
C11_LeftMultiplied ==
  /\ Len(recent.calls) > 0
       => /\ LastCall.axis \in {"x", "y"}
          /\ studentTransform
               = Product(QuarterTurn(LastCall.axis, LastCall.direction), LastCall.before)
          /\ heap[studentMesh].matrix = studentTransform
  /\ (/\ Len(recent.calls) = 2
      /\ recent.calls[1] = [axis |-> "x", direction |-> 1, before |-> Identity]
      /\ recent.calls[2].axis = "y"
      /\ recent.calls[2].direction = 1)
       => studentTransform = Product(QuarterTurn("y", 1), QuarterTurn("x", 1))

\* a turn about x then a turn about y have been made from the identity, and
\* the transform is not the product in the other order
C11_OrderMatters ==
  /\ Len(recent.calls) = 2
  /\ recent.calls[1] = [axis |-> "x", direction |-> 1, before |-> Identity]
  /\ recent.calls[2].axis = "y"
  /\ recent.calls[2].direction = 1
  /\ studentTransform = Product(QuarterTurn("y", 1), QuarterTurn("x", 1))
  /\ studentTransform # Product(QuarterTurn("x", 1), QuarterTurn("y", 1))

\* the objects the two slots reference
Slotted == {baselineMesh, studentMesh, baselineGeometry, studentGeometry} \ {undefined}

\* C12 (SpecNormalize): once every load started has completed or failed,
\* the scene holds no mesh but the one baseline mesh and the one student
\* mesh the slots reference, and no slot references a disposed geometry.
C12_SlotsReplacedWholesale ==
  pending = {}
    => /\ scene.children \subseteq {baselineMesh, studentMesh} \ {undefined}
       /\ \A m \in Slotted : ~heap[m].disposed

\* two overlapping loadBaseline calls have left two baseline meshes in the scene
C12_TwoBaselinesShown ==
  /\ pending = {}
  /\ studentMesh = undefined
  /\ Cardinality(scene.children) = 2

\* a failed reload has left the baseline slot on a disposed geometry
C12_DisposedBaselineKept ==
  /\ pending = {}
  /\ baselineGeometry # undefined
  /\ heap[baselineGeometry].disposed
  /\ baselineMesh \notin scene.children

====
